---- MODULE Spec2Model ----
(***************************************************************************)
(* A model of SAPLscraper.py: the filename sanitizer, the date and edition *)
(* filters, the PDF download with its deduplication by file name, and the  *)
(* sequential walk over the pages of the gazette API.                      *)
(*                                                                         *)
(* A Python string is a sequence of one-character strings.  A JSON value   *)
(* is a record [k, s, n]: k is "missing" (the key is absent), "null",      *)
(* "str" (text s) or "int" (number n).                                     *)
(***************************************************************************)
EXTENDS Integers, Sequences, FiniteSets, TLC

VARIABLES
    fn, arg, ret,            \* one call of a pure function: its name, input, result
    pc,                      \* position in process_diarios_by_filter
    criteria,                \* the arguments of process_diarios_by_filter
    page,                    \* local variable page
    data,                    \* local variable data: the response of fetch_diarios
    idx,                     \* position of the for loop in data["data"]
    diarios_data,            \* local variable diarios_data: the result list
    folder,                  \* the files of PDF_FOLDER: path -> content
    exc,                     \* the exception that left the function, or "none"
    pageRequests,            \* history: the pages asked of the API, in order
    fileRequests,            \* history: the file requests made, in order
    writes,                  \* history: the files opened for writing, in order
    pagesSeen,               \* history: the data arrays of the pages visited
    lastDownload             \* history: what the download_pdf call just made did

fnVars == <<fn, arg, ret>>
procVars == <<pc, criteria, page, data, idx, diarios_data, folder, exc,
              pageRequests, fileRequests, writes, pagesSeen, lastDownload>>
vars == <<fn, arg, ret, pc, criteria, page, data, idx, diarios_data, folder,
          exc, pageRequests, fileRequests, writes, pagesSeen, lastDownload>>

(***************************************************************************)
(* Bounds of the model.                                                    *)
(***************************************************************************)
MaxAffix == 2        \* characters before and after the filler of a filename
MaxCandLen == 2      \* characters of an edition candidate
MaxPages == 2        \* pages the API serves
MaxItems == 2        \* entries served over all pages of one run

(***************************************************************************)
(* Strings.                                                                *)
(***************************************************************************)
None == [k |-> "null", s |-> <<>>, n |-> 0]
Missing == [k |-> "missing", s |-> <<>>, n |-> 0]
JStr(s) == [k |-> "str", s |-> s, n |-> 0]
JInt(n) == [k |-> "int", s |-> <<>>, n |-> n]

Whitespace == {" ", "\t", "\n"}
DigitChars == <<"0", "1", "2", "3", "4", "5", "6", "7", "8", "9">>
IsDigit(c) == \E i \in 1..10 : DigitChars[i] = c
DigitVal(c) == (CHOOSE i \in 1..10 : DigitChars[i] = c) - 1

SetMin(S) == CHOOSE x \in S : \A y \in S : x <= y

\* str.strip(): the text between the first and the last non-blank character
StripBothEnds(s) ==
    IF \A i \in 1..Len(s) : s[i] \in Whitespace THEN <<>>
    ELSE LET first == CHOOSE i \in 1..Len(s) :
                          s[i] \notin Whitespace /\ \A j \in 1..(i - 1) : s[j] \in Whitespace
             last == CHOOSE i \in 1..Len(s) :
                          s[i] \notin Whitespace /\ \A j \in (i + 1)..Len(s) : s[j] \in Whitespace
         IN  SubSeq(s, first, last)

Strip(s) == StripBothEnds(s)

RECURSIVE NatDigits(_)
NatDigits(n) ==
    IF n < 10 THEN <<DigitChars[n + 1]>>
    ELSE NatDigits(n \div 10) \o <<DigitChars[(n % 10) + 1]>>

\* str(v) as an f-string renders it
PyStr(v) ==
    CASE v.k = "str" -> v.s
      [] v.k = "int" -> IF v.n < 0 THEN <<"-">> \o NatDigits(-v.n) ELSE NatDigits(v.n)
      [] OTHER -> <<"N", "o", "n", "e">>

\* truthiness of a value
DateTime(key) == [k |-> "datetime", s |-> <<>>, n |-> key]
Truthy(v) ==
    CASE v.k = "str" -> v.s # <<>>
      [] v.k = "int" -> v.n # 0
      [] v.k = "datetime" -> TRUE
      [] OTHER -> FALSE

\* dict.get(key, default) on the value found under the key
Get(v, default) == IF v.k = "missing" THEN default ELSE v

(***************************************************************************)
(* sanitize_filename                                                       *)
(***************************************************************************)
InvalidChars == {"<", ">", ":", "\"", "/", "\\", "|", "?", "*"}
MaxFilenameLen == 240

RemoveInvalid(s) == SelectSeq(s, LAMBDA c : c \notin InvalidChars)

Truncate(s) == IF Len(s) > MaxFilenameLen THEN SubSeq(s, 1, MaxFilenameLen) ELSE s

\* a plausible slip: the blanks are trimmed before the cut, not after it
sanitize_strip_first(filename) == Truncate(Strip(RemoveInvalid(filename)))

sanitize_filename(filename) == Strip(Truncate(RemoveInvalid(filename)))

(***************************************************************************)
(* int(), is_edition_in_range                                              *)
(***************************************************************************)
RECURSIVE DigitsValue(_)
DigitsValue(s) ==
    IF s = <<>> THEN 0
    ELSE 10 * DigitsValue(SubSeq(s, 1, Len(s) - 1)) + DigitVal(s[Len(s)])

AllDigits(s) == s # <<>> /\ \A i \in 1..Len(s) : IsDigit(s[i])

\* int(v): [err, n]; text is stripped, may carry a sign, and is then digits only
PyInt(v) ==
    CASE v.k = "int" -> [err |-> "none", n |-> v.n]
      [] v.k = "str" ->
            LET t == Strip(v.s)
                signed == t # <<>> /\ t[1] \in {"+", "-"}
                body == IF signed THEN SubSeq(t, 2, Len(t)) ELSE t
            IN  IF AllDigits(body)
                THEN [err |-> "none",
                      n |-> IF signed /\ t[1] = "-" THEN 0 - DigitsValue(body)
                            ELSE DigitsValue(body)]
                ELSE [err |-> "ValueError", n |-> 0]
      [] OTHER -> [err |-> "TypeError", n |-> 0]

\* [err, val, warned]: only ValueError is caught (line 112)
is_edition_in_range(edition, start_edition, end_edition) ==
    LET r == PyInt(edition)
    IN  [err |-> IF r.err = "ValueError" THEN "none" ELSE r.err,
         val |-> r.err = "none" /\ start_edition <= r.n /\ r.n <= end_edition,
         warned |-> r.err = "ValueError"]

(***************************************************************************)
(* datetime.strptime, converter_data, is_date_in_range                     *)
(***************************************************************************)
\* the names the pt_BR locale gives %A and %B (those the model uses)
WeekdayNames == { <<"s", "e", "g", "u", "n", "d", "a">>,
                  <<"q", "u", "a", "r", "t", "a">> }
MonthNames == { [name |-> <<"f", "e", "v", "e", "r", "e", "i", "r", "o">>, num |-> 2],
                [name |-> <<"m", "a", "r", "ç", "o">>, num |-> 3],
                [name |-> <<"d", "e", "z", "e", "m", "b", "r", "o">>, num |-> 12] }

\* a format: "%x" is a directive, " " is one or more blanks, the rest literal
FormatWithWeekday == <<"%A", ",", " ", "%d", " ", "d", "e", " ", "%B", " ",
                       "d", "e", " ", "%Y">>
FormatWithoutWeekday == <<"%d", " ", "d", "e", " ", "%B", " ", "d", "e", " ", "%Y">>
formatos == <<FormatWithWeekday, FormatWithoutWeekday>>

HasPrefixAt(s, i, p) ==
    /\ i + Len(p) - 1 <= Len(s)
    /\ \A k \in 1..Len(p) : s[i + k - 1] = p[k]

IsLeap(y) == (y % 4 = 0 /\ y % 100 # 0) \/ y % 400 = 0
DaysIn(m, y) ==
    IF m = 2 THEN (IF IsLeap(y) THEN 29 ELSE 28)
    ELSE IF m \in {4, 6, 9, 11} THEN 30 ELSE 31

NoDate == [ok |-> FALSE, y |-> 0, m |-> 0, d |-> 0]

\* the fields read from s[i..] against f[j..], or NoDate
RECURSIVE MatchFormat(_, _, _, _, _)
MatchFormat(s, i, f, j, acc) ==
    IF j > Len(f) THEN (IF i > Len(s) THEN acc ELSE NoDate)
    ELSE
      CASE f[j] = " " ->
             LET stop == {k \in i..(Len(s) + 1) :
                             k = Len(s) + 1 \/ s[k] \notin Whitespace}
                 k0 == SetMin(stop)
             IN  IF k0 > i THEN MatchFormat(s, k0, f, j + 1, acc) ELSE NoDate
        [] f[j] = "%A" ->
             LET hit == {w \in WeekdayNames : HasPrefixAt(s, i, w)}
             IN  IF hit = {} THEN NoDate
                 ELSE MatchFormat(s, i + Len(CHOOSE w \in hit : TRUE), f, j + 1, acc)
        [] f[j] = "%B" ->
             LET hit == {b \in MonthNames : HasPrefixAt(s, i, b.name)}
             IN  IF hit = {} THEN NoDate
                 ELSE LET b == CHOOSE b \in hit : TRUE
                      IN  MatchFormat(s, i + Len(b.name), f, j + 1,
                                      [acc EXCEPT !.m = b.num])
        [] f[j] = "%d" ->
             LET two == /\ i + 1 <= Len(s) /\ IsDigit(s[i]) /\ IsDigit(s[i + 1])
                        /\ DigitsValue(SubSeq(s, i, i + 1)) \in 1..31
                 one == i <= Len(s) /\ IsDigit(s[i]) /\ DigitVal(s[i]) \in 1..9
             IN  IF two
                 THEN MatchFormat(s, i + 2, f, j + 1,
                                  [acc EXCEPT !.d = DigitsValue(SubSeq(s, i, i + 1))])
                 ELSE IF one
                 THEN MatchFormat(s, i + 1, f, j + 1, [acc EXCEPT !.d = DigitVal(s[i])])
                 ELSE NoDate
        [] f[j] = "%Y" ->
             IF i + 3 <= Len(s) /\ AllDigits(SubSeq(s, i, i + 3))
             THEN MatchFormat(s, i + 4, f, j + 1,
                              [acc EXCEPT !.y = DigitsValue(SubSeq(s, i, i + 3))])
             ELSE NoDate
        [] OTHER ->
             IF i <= Len(s) /\ s[i] = f[j]
             THEN MatchFormat(s, i + 1, f, j + 1, acc) ELSE NoDate

\* datetime.strptime(s, f): [err, date]; the date is at midnight
Strptime(v, f) ==
    IF v.k # "str" THEN [err |-> "TypeError", date |-> NoDate]
    ELSE LET r == MatchFormat(v.s, 1, f, 1, [ok |-> TRUE, y |-> 0, m |-> 0, d |-> 0])
         IN  IF r.ok /\ r.y >= 1 /\ r.d <= DaysIn(r.m, r.y)
             THEN [err |-> "none", date |-> r]
             ELSE [err |-> "ValueError", date |-> NoDate]

\* the for loop of converter_data from format k on: [err, date, fmt, warned]
RECURSIVE TryFormats(_, _, _)
TryFormats(v, fs, k) ==
    IF k > Len(fs)
    THEN [err |-> "none", date |-> NoDate, fmt |-> 0, warned |-> TRUE]
    ELSE LET r == Strptime(v, fs[k])
         IN  IF r.err = "none"
             THEN [err |-> "none", date |-> r.date, fmt |-> k, warned |-> FALSE]
             ELSE IF r.err = "ValueError" THEN TryFormats(v, fs, k + 1)
             ELSE [err |-> r.err, date |-> NoDate, fmt |-> 0, warned |-> FALSE]

converter_data(data_str) == TryFormats(data_str, formatos, 1)

\* a datetime as a number: the day, then the time of day (0 is min, 1 is max)
DateTimeKey(date, tod) == (date.y * 10000 + date.m * 100 + date.d) * 2 + tod
TimeMin == 0
TimeMax == 1

\* a plausible slip: the end of the interval is left out
date_end_exclusive(date_str, start_date, end_date) ==
    LET c == converter_data(date_str)
        key == DateTimeKey(c.date, TimeMin)
    IN  [err |-> "none",
         val |-> c.err = "none" /\ c.date.ok
                 /\ start_date <= key /\ key < end_date,
         warned |-> c.warned \/ c.err # "none",
         fmt |-> c.fmt]

\* [err, val, warned, fmt]: every exception is caught (line 103)
is_date_in_range(date_str, start_date, end_date) ==
    LET c == converter_data(date_str)
        key == DateTimeKey(c.date, TimeMin)
    IN  [err |-> "none",
         val |-> c.err = "none" /\ c.date.ok /\ start_date <= key /\ key <= end_date,
         warned |-> c.warned \/ c.err # "none",
         fmt |-> c.fmt]

(***************************************************************************)
(* download_pdf                                                            *)
(***************************************************************************)
PDF_FOLDER == <<"D", "i", "a", "r", "i", "o", "s", "_", "P", "D", "F", "s">>
SiteRoot == <<"h", "t", "t", "p", "s", ":", "/", "/", "p", "u", "b", "l", "i", "c", "a", "c", "o", "e", "s", ".", "b", "o", "a", "v", "i", "s", "t", "a", ".", "r", "r", ".", "g", "o", "v", ".", "b", "r">>
DiarioPrefix == <<"D", "i", "a", "r", "i", "o", "_">>
PdfSuffix == <<".", "p", "d", "f">>

\* os.path.join(folder_path, filename)
PathJoin(folder_path, filename) == folder_path \o <<"/">> \o filename

\* lines 47-49
DerivedPath(folder_path, diario_info) ==
    PathJoin(folder_path,
             sanitize_filename(DiarioPrefix \o PyStr(diario_info.Edicao) \o <<"_">>
                               \o PyStr(diario_info.Data) \o PdfSuffix))

\* a plausible slip: the check for an existing file is left out
PathExistsNever(files, filepath) == FALSE

\* os.path.exists(filepath)
PathExists(files, filepath) == filepath \in DOMAIN files

MayWrite(files, filepath) == ~PathExists(files, filepath)

\* what the file server and the disk do to one call: the request raises, or
\* answers with a status; opening the file or writing it may raise
FileOutcomes ==
    {[get |-> "raises", status |-> 0, io |-> "ok"],
     [get |-> "answers", status |-> 404, io |-> "ok"]}
    \cup [get : {"answers"}, status : {200}, io : {"ok", "open_raises", "write_raises"}]

\* response.content: the file server keeps one body under each URL
BodyOf(pdf_url) == [of |-> pdf_url.s, upto |-> "end"]

\* what a write that raised has left of a body
PartOf(body) == [body EXCEPT !.upto = "somewhere"]

\* a plausible slip: any status that is a true value counts as a success
StatusOkTruthy(status) == status # 0

\* line 46
StatusOk(status) == status = 200

\* download_pdf(pdf_url, folder_path, diario_info) under outcome o, on the
\* files of the folder: what it returns, the files it leaves, the requests it
\* made and the files it opened for writing
download_pdf(pdf_url, folder_path, diario_info, o, files) ==
    LET filepath == DerivedPath(folder_path, diario_info)
        quiet == [ret |-> None, files |-> files, requests |-> <<>>, opened |-> <<>>,
                  logged |-> "warning"]
    IN  IF ~Truthy(pdf_url) THEN quiet
        ELSE IF o.get = "raises"
        THEN [quiet EXCEPT !.requests = <<pdf_url.s>>, !.logged = "error"]
        ELSE IF ~StatusOk(o.status)
        THEN [quiet EXCEPT !.requests = <<pdf_url.s>>]
        ELSE IF ~MayWrite(files, filepath)
        THEN [ret |-> JStr(filepath), files |-> files, requests |-> <<pdf_url.s>>,
              opened |-> <<>>, logged |-> "info"]
        ELSE IF o.io = "open_raises"
        THEN [quiet EXCEPT !.requests = <<pdf_url.s>>, !.logged = "error"]
        ELSE IF o.io = "write_raises"
        THEN [ret |-> None,
              files |-> (filepath :> PartOf(BodyOf(pdf_url))) @@ files,
              requests |-> <<pdf_url.s>>,
              opened |-> <<[path |-> filepath]>>,
              logged |-> "error"]
        ELSE [ret |-> JStr(filepath),
              files |-> (filepath :> BodyOf(pdf_url)) @@ files,
              requests |-> <<pdf_url.s>>,
              opened |-> <<[path |-> filepath]>>,
              logged |-> "info"]

(***************************************************************************)
(* One call of a pure function on an input drawn from a bounded set.       *)
(***************************************************************************)
RECURSIVE SeqsUpTo(_, _)
SeqsUpTo(S, n) ==
    IF n = 0 THEN {<<>>}
    ELSE LET shorter == SeqsUpTo(S, n - 1)
         IN  shorter \cup {Append(s, c) : s \in shorter, c \in S}

Filler(c, n) == [i \in 1..n |-> c]

SanitizeAlphabet == {"a", " ", "/", "*"}
FillerChars == {"a", " ", "/"}
FillerLengths == {0, MaxFilenameLen - 2, MaxFilenameLen - 1, MaxFilenameLen}
SanitizeInputs ==
    {head \o Filler(c, n) \o tail :
        head \in SeqsUpTo(SanitizeAlphabet, MaxAffix),
        tail \in SeqsUpTo(SanitizeAlphabet, MaxAffix),
        c \in FillerChars, n \in FillerLengths}

EditionAlphabet == {"1", "2", "-", " ", "x"}
EditionBounds == {1, 2, 12}
EditionCandidates ==
    {JStr(s) : s \in SeqsUpTo(EditionAlphabet, MaxCandLen)}
        \cup {JInt(n) : n \in {0, 2, 12}} \cup {None}
EditionInputs ==
    [edition : EditionCandidates, start_edition : EditionBounds,
     end_edition : EditionBounds]

\* a date text as the API writes it, by its parts
DE == <<"d", "e">>
BogusWord == <<"x", "y">>
WeekdayText(w) ==
    CASE w = 0 -> <<>>
      [] w = 1 -> <<"s", "e", "g", "u", "n", "d", "a", ",", " ">>
      [] w = 2 -> <<"q", "u", "a", "r", "t", "a", ",", " ">>
      [] OTHER -> BogusWord \o <<",", " ">>
MonthText(m) ==
    CASE m = 2 -> <<"f", "e", "v", "e", "r", "e", "i", "r", "o">>
      [] m = 3 -> <<"m", "a", "r", "ç", "o">>
      [] m = 12 -> <<"d", "e", "z", "e", "m", "b", "r", "o">>
      [] OTHER -> BogusWord
DayText(d, pad) == IF pad /\ d < 10 THEN <<"0">> \o NatDigits(d) ELSE NatDigits(d)
DateText(x) ==
    WeekdayText(x.wd) \o DayText(x.d, x.pad)
        \o (IF x.wide THEN <<" ", " ">> ELSE <<" ">>) \o DE \o <<" ">>
        \o MonthText(x.m) \o <<" ">> \o DE \o <<" ">> \o NatDigits(x.y)
        \o (IF x.tail THEN BogusWord ELSE <<>>)

DateParts ==
    [wd : 0..3, d : {1, 15, 29, 31}, pad : BOOLEAN, m : {2, 3, 12, 0},
     y : {2023, 2024}, wide : BOOLEAN, tail : BOOLEAN]
NotADate == [wd |-> 3, d |-> 0, pad |-> FALSE, m |-> 0, y |-> 0,
             wide |-> FALSE, tail |-> TRUE]
\* the days date_input can give main (lines 187-188)
Days == { [ok |-> TRUE, y |-> 2023, m |-> 3, d |-> 1],
          [ok |-> TRUE, y |-> 2023, m |-> 3, d |-> 15],
          [ok |-> TRUE, y |-> 2024, m |-> 2, d |-> 29] }
DateInputs ==
    {[parts |-> x, date_str |-> JStr(DateText(x)), from |-> a, to |-> b,
      start_date |-> DateTimeKey(a, TimeMin), end_date |-> DateTimeKey(b, tod)] :
        x \in DateParts, a \in Days, b \in Days, tod \in {TimeMin, TimeMax}}
    \cup
    {[parts |-> NotADate, date_str |-> v, from |-> a, to |-> b,
      start_date |-> DateTimeKey(a, TimeMin), end_date |-> DateTimeKey(b, TimeMax)] :
        v \in {None, JStr(<<>>), JStr(<<"n", "o", "t", " ", "a", " ", "d", "a", "t", "e">>)},
        a \in Days, b \in Days}

NotCalled == [done |-> FALSE]

ProcIdle ==
    /\ pc = "idle"
    /\ criteria = [start_date |-> None, end_date |-> None,
                   start_edition |-> None, end_edition |-> None]
    /\ page = 0
    /\ data = None
    /\ idx = 0
    /\ diarios_data = <<>>
    /\ folder = <<>>
    /\ exc = "none"
    /\ pageRequests = <<>>
    /\ fileRequests = <<>>
    /\ writes = <<>>
    /\ pagesSeen = <<>>
    /\ lastDownload = [kind |-> "none"]

InitFn ==
    /\ \/ fn = "sanitize_filename" /\ arg \in SanitizeInputs
       \/ fn = "is_edition_in_range" /\ arg \in EditionInputs
       \/ fn = "is_date_in_range" /\ arg \in DateInputs
    /\ ret = NotCalled
    /\ ProcIdle

CallSanitizeFilename ==
    /\ fn = "sanitize_filename" /\ ~ret.done
    /\ ret' = [done |-> TRUE, val |-> sanitize_filename(arg)]
    /\ UNCHANGED <<fn, arg>>
    /\ UNCHANGED procVars

CallIsEditionInRange ==
    /\ fn = "is_edition_in_range" /\ ~ret.done
    /\ ret' = [done |-> TRUE,
               out |-> is_edition_in_range(arg.edition, arg.start_edition,
                                           arg.end_edition)]
    /\ UNCHANGED <<fn, arg>>
    /\ UNCHANGED procVars

CallIsDateInRange ==
    /\ fn = "is_date_in_range" /\ ~ret.done
    /\ ret' = [done |-> TRUE,
               out |-> is_date_in_range(arg.date_str, arg.start_date, arg.end_date)]
    /\ UNCHANGED <<fn, arg>>
    /\ UNCHANGED procVars

NextFn == CallSanitizeFilename \/ CallIsEditionInRange \/ CallIsDateInRange

SpecFn == InitFn /\ [][NextFn]_vars

(***************************************************************************)
(* The gazette API and process_diarios_by_filter                           *)
(***************************************************************************)
Media(k, url) == [k |-> k, url |-> url]
Meta(k) == [k |-> k, pages |-> JInt(8), size |-> JStr(<<"1", "M", "B">>)]
Diario(edicao, d, media, meta) ==
    [edicao |-> edicao, data |-> d, media |-> media, meta |-> meta]

MarchText == JStr(DateText([wd |-> 0, d |-> 15, pad |-> FALSE, m |-> 3, y |-> 2023,
                            wide |-> FALSE, tail |-> FALSE]))
LeapDayText == JStr(DateText([wd |-> 1, d |-> 29, pad |-> FALSE, m |-> 2, y |-> 2024,
                              wide |-> FALSE, tail |-> FALSE]))
NotADateText == JStr(<<"n", "o", "t", " ", "a", " ", "d", "a", "t", "e">>)

\* the entries the API may serve
EntryTwelve == Diario(JStr(<<"1", "2">>), MarchText,
                      Media("dict", JStr(<<"/", "a", ".", "p", "d", "f">>)), Meta("dict"))
EntrySlash == Diario(JStr(<<"1", "/", "2">>), MarchText,
                     Media("dict", JStr(<<"/", "b", ".", "p", "d", "f">>)), Meta("missing"))
EntrySeven == Diario(JInt(7), LeapDayText, Media("dict", JStr(<<>>)), Meta("dict"))
EntryNullEdition == Diario(None, NotADateText, Media("missing", Missing), Meta("dict"))
EntryNullMeta == Diario(Missing, MarchText, Media("null", Missing), Meta("null"))
Entries == {EntryTwelve, EntrySlash, EntrySeven, EntryNullEdition, EntryNullMeta}

NextUrl == JStr(<<"?", "p", "a", "g", "e", "=", "n">>)
Links(k, next) == [k |-> k, next |-> next]
Body(dataK, items, links) ==
    [k |-> "dict", data |-> [k |-> dataK, items |-> items], links |-> links]
NullBody == [k |-> "null", data |-> [k |-> "missing", items |-> <<>>],
             links |-> Links("missing", Missing)]

\* the cursors a page may carry; the last page of the API carries no next page
LinksServed(p) ==
    {Links("missing", Missing), Links("dict", Missing), Links("dict", None),
     Links("dict", JStr(<<>>))}
        \cup (IF p < MaxPages THEN {Links("dict", NextUrl)} ELSE {})

\* the bodies the API may answer page p with, room entries being left to serve
BodiesServed(p, room) ==
    {NullBody, Body("missing", <<>>, Links("missing", Missing)),
     Body("missing", <<>>, Links("dict", None)),
     Body("null", <<>>, Links("dict", None))}
        \cup {Body("list", items, l) :
                 items \in SeqsUpTo(Entries, room), l \in LinksServed(p)}

ApiOutcomes(p, room) ==
    {[get |-> "raises", status |-> 0, body |-> NullBody],
     [get |-> "answers", status |-> 500, body |-> NullBody]}
        \cup {[get |-> "answers", status |-> 200, body |-> b] : b \in BodiesServed(p, room)}

\* fetch_diarios(page) under outcome o
fetch_diarios(p, o) ==
    IF o.get = "answers" /\ o.status = 200 THEN o.body ELSE NullBody

\* line 124: not data or "data" not in data
NoPage(d) ==
    \/ d.k = "null"
    \/ d.data.k = "missing" /\ d.links.k = "missing"
    \/ d.data.k = "missing"

\* a plausible slip: the page is walked on whatever its cursor says
HasNextAlways(d) == TRUE

\* line 153: data["links"]["next"] is there and true
HasNext(d) == d.links.k = "dict" /\ Truthy(d.links.next)

\* line 153 raises KeyError
LinksKeyError(d) == d.links.k = "missing" \/ d.links.next.k = "missing"

\* the arguments main passes, and none at all: two datetimes (lines 191-193),
\* or two editions, each at least 1 (lines 207-211)
NoCriteria == [start_date |-> None, end_date |-> None,
               start_edition |-> None, end_edition |-> None]
DayOne == [ok |-> TRUE, y |-> 2023, m |-> 3, d |-> 1]
DayTwo == [ok |-> TRUE, y |-> 2023, m |-> 3, d |-> 15]
CriteriaSet ==
    {NoCriteria}
    \cup {[NoCriteria EXCEPT !.start_date = DateTime(DateTimeKey(a, TimeMin)),
                             !.end_date = DateTime(DateTimeKey(b, TimeMax))] :
             a \in {DayOne}, b \in {DayTwo}}
    \cup {[NoCriteria EXCEPT !.start_edition = JInt(a), !.end_edition = JInt(b)] :
             a \in {12}, b \in {12}}

\* a plausible slip: the filters are never applied
FilterOff(a, b) == FALSE

\* lines 134 and 137: both ends of the interval are true values
FilterOn(a, b) == Truthy(a) /\ Truthy(b)

\* a plausible slip: the URL is built from whatever the media entry holds
PdfUrlUnchecked(diario) ==
    IF diario.media.k = "dict" THEN JStr(SiteRoot \o PyStr(diario.media.url)) ELSE None

\* line 130
PdfUrl(diario) ==
    IF diario.media.k = "dict" /\ Truthy(diario.media.url)
    THEN JStr(SiteRoot \o diario.media.url.s) ELSE None

\* lines 141-147
DiarioInfo(diario) ==
    [Edicao |-> Get(diario.edicao, JStr(<<>>)),
     Data |-> Get(diario.data, JStr(<<>>)),
     Paginas |-> IF diario.meta.k = "dict" THEN Get(diario.meta.pages, JStr(<<>>))
                 ELSE JStr(<<>>),
     Tamanho |-> IF diario.meta.k = "dict" THEN Get(diario.meta.size, JStr(<<>>))
                 ELSE JStr(<<>>),
     PDF_URL |-> PdfUrl(diario)]

\* lines 128-148 on one entry: it raises, is skipped (continue) or is collected
EntryStep(diario, c) ==
    LET info == DiarioInfo(diario)
        byDate == is_date_in_range(info.Data, c.start_date.n, c.end_date.n)
        byEdition == is_edition_in_range(info.Edicao, c.start_edition.n,
                                         c.end_edition.n)
    IN  IF diario.meta.k = "null"
        THEN [kind |-> "raise", exc |-> "AttributeError", info |-> info]
        ELSE IF FilterOn(c.start_date, c.end_date) /\ ~byDate.val
        THEN [kind |-> "skip", exc |-> "none", info |-> info]
        ELSE IF FilterOn(c.start_edition, c.end_edition) /\ byEdition.err # "none"
        THEN [kind |-> "raise", exc |-> byEdition.err, info |-> info]
        ELSE IF FilterOn(c.start_edition, c.end_edition) /\ ~byEdition.val
        THEN [kind |-> "skip", exc |-> "none", info |-> info]
        ELSE [kind |-> "collect", exc |-> "none", info |-> info]

\* a plausible slip: the record of a failed download is taken back
DropFailed(records, downloaded) ==
    IF downloaded = None THEN SubSeq(records, 1, Len(records) - 1) ELSE records

\* line 151: what download_pdf returns is not used
AfterDownload(records, downloaded) == records

RECURSIVE Flatten(_)
Flatten(ss) == IF ss = <<>> THEN <<>> ELSE Head(ss) \o Flatten(Tail(ss))

ItemsServed == Len(Flatten(pagesSeen))

\* the folder may hold the files of an earlier run (line 118, exist_ok)
InitialFolders ==
    {<<>>,
     DerivedPath(PDF_FOLDER, DiarioInfo(EntryTwelve)) :>
         [of |-> <<"o", "l", "d">>, upto |-> "end"]}

NoDownload == [kind |-> "none"]

Init ==
    /\ fn = "process_diarios_by_filter"
    /\ arg = <<>>
    /\ ret = NotCalled
    /\ pc = "fetch"
    /\ criteria \in CriteriaSet
    /\ page = 1
    /\ data = NullBody
    /\ idx = 0
    /\ diarios_data = <<>>
    /\ folder \in InitialFolders
    /\ exc = "none"
    /\ pageRequests = <<>>
    /\ fileRequests = <<>>
    /\ writes = <<>>
    /\ pagesSeen = <<>>
    /\ lastDownload = NoDownload

\* lines 123-125: the page is fetched; the loop over its entries starts, or
\* the walk ends
FetchPage ==
    /\ pc = "fetch"
    /\ \E o \in ApiOutcomes(page, MaxItems - ItemsServed) :
          LET d == fetch_diarios(page, o)
          IN  /\ data' = d
              /\ pageRequests' = Append(pageRequests, page)
              /\ IF NoPage(d)
                 THEN pc' = "returned" /\ exc' = exc /\ pagesSeen' = pagesSeen
                 ELSE IF d.data.k # "list"
                 THEN pc' = "raised" /\ exc' = "TypeError" /\ pagesSeen' = pagesSeen
                 ELSE /\ pc' = "loop" /\ exc' = exc
                      /\ pagesSeen' = Append(pagesSeen, d.data.items)
    /\ idx' = 1
    /\ lastDownload' = NoDownload
    /\ UNCHANGED <<criteria, page, diarios_data, folder, fileRequests, writes>>
    /\ UNCHANGED fnVars

\* lines 127-148: one entry is read and filtered, and collected if it passes
ProcessEntry ==
    /\ pc = "loop"
    /\ idx <= Len(data.data.items)
    /\ LET step == EntryStep(data.data.items[idx], criteria)
       IN  CASE step.kind = "raise" ->
                  /\ pc' = "raised" /\ exc' = step.exc
                  /\ UNCHANGED <<idx, diarios_data>>
             [] step.kind = "skip" ->
                  /\ idx' = idx + 1
                  /\ UNCHANGED <<pc, exc, diarios_data>>
             [] OTHER ->
                  /\ diarios_data' = Append(diarios_data, step.info)
                  /\ exc' = exc
                  /\ IF Truthy(step.info.PDF_URL)
                     THEN pc' = "download" /\ idx' = idx
                     ELSE pc' = pc /\ idx' = idx + 1
    /\ lastDownload' = NoDownload
    /\ UNCHANGED <<criteria, page, data, folder, pageRequests, fileRequests, writes,
                   pagesSeen>>
    /\ UNCHANGED fnVars

\* lines 150-151: the file of the entry just collected is downloaded
DownloadPdf ==
    /\ pc = "download"
    /\ \E o \in FileOutcomes :
          LET info == diarios_data[Len(diarios_data)]
              r == download_pdf(info.PDF_URL, PDF_FOLDER, info, o, folder)
          IN  /\ folder' = r.files
              /\ fileRequests' =
                    fileRequests \o [i \in 1..Len(r.requests) |->
                        [pos |-> Len(diarios_data), page |-> page, idx |-> idx]]
              /\ writes' = writes \o r.opened
              /\ lastDownload' =
                    [kind |-> "call", ret |-> r.ret, pos |-> Len(diarios_data),
                     path |-> DerivedPath(PDF_FOLDER, info),
                     status |-> IF o.get = "raises" THEN 0 ELSE o.status,
                     wrote |-> r.opened # <<>>]
              /\ diarios_data' = AfterDownload(diarios_data, r.ret)
    /\ pc' = "loop"
    /\ idx' = idx + 1
    /\ UNCHANGED <<criteria, page, data, exc, pageRequests, pagesSeen>>
    /\ UNCHANGED fnVars

\* lines 153-157: after the last entry the cursor decides: the next page, or
\* the end of the walk
PageEnd ==
    /\ pc = "loop"
    /\ idx > Len(data.data.items)
    /\ IF LinksKeyError(data)
       THEN pc' = "raised" /\ exc' = "KeyError" /\ page' = page
       ELSE IF HasNext(data)
       THEN pc' = "fetch" /\ exc' = exc /\ page' = page + 1
       ELSE pc' = "returned" /\ exc' = exc /\ page' = page
    /\ lastDownload' = NoDownload
    /\ UNCHANGED <<criteria, data, idx, diarios_data, folder, pageRequests,
                   fileRequests, writes, pagesSeen>>
    /\ UNCHANGED fnVars

Next == FetchPage \/ ProcessEntry \/ DownloadPdf \/ PageEnd

Spec == Init /\ [][Next]_vars

(***************************************************************************)
(* The claims about the pure functions, under SpecFn.                      *)
(***************************************************************************)

\* C1: whatever the input, the name sanitize_filename returns holds none of
\* < > : " / \ | ? *, is at most 240 characters long, and neither starts nor
\* ends with a blank.
C1_SanitizedNameIsSafe ==
    (fn = "sanitize_filename" /\ ret.done) =>
        /\ \A i \in 1..Len(ret.val) :
              ret.val[i] \notin {"<", ">", ":", "\"", "/", "\\", "|", "?", "*"}
        /\ Len(ret.val) <= 240
        /\ ret.val # <<>> =>
              ret.val[1] \notin Whitespace /\ ret.val[Len(ret.val)] \notin Whitespace

\* a name cut at 240 characters, where the cut leaves blanks to trim, from an
\* input that also held characters to remove
C1_Witness ==
    /\ fn = "sanitize_filename" /\ ret.done
    /\ Len(arg) > 240
    /\ \E i \in 1..Len(arg) : arg[i] \in InvalidChars
    /\ Len(RemoveInvalid(arg)) > 240
    /\ RemoveInvalid(arg)[240] \in Whitespace
    /\ ret.val # <<>>
    /\ Len(ret.val) < 240

\* C5 (as stated): is_edition_in_range never raises; it returns true exactly
\* when the candidate parses as an integer inside [start_edition, end_edition],
\* and false with a warning for every candidate that is not numeric, a null
\* edition included.
C5_EditionFilterNeverRaises ==
    (fn = "is_edition_in_range" /\ ret.done) =>
        LET e == PyInt(arg.edition)
        IN  /\ ret.out.err = "none"
            /\ ret.out.val <=>
                  (e.err = "none" /\ arg.start_edition <= e.n /\ e.n <= arg.end_edition)
            /\ e.err # "none" => (~ret.out.val /\ ret.out.warned)

\* the parts of a date text that strptime accepts in one of the two formats
WellFormed(x) ==
    /\ x.wd \in {0, 1, 2}
    /\ x.m \in {2, 3, 12}
    /\ ~x.tail
    /\ x.d \in 1..DaysIn(x.m, x.y)
DayNumber(date) == date.y * 10000 + date.m * 100 + date.d

\* C6: is_date_in_range uses the first format that parses, the one with the
\* weekday before the one without; it returns true exactly when the date
\* lies between the start day and the end day, both included; a text no
\* format parses gives a warning and false, and nothing is raised.
C6_DateFilter ==
    (fn = "is_date_in_range" /\ ret.done) =>
        /\ ret.out.err = "none"
        /\ ret.out.val <=>
              /\ WellFormed(arg.parts)
              /\ DayNumber(arg.from) <= DayNumber(arg.parts)
              /\ DayNumber(arg.parts) <= DayNumber(arg.to)
        /\ WellFormed(arg.parts) =>
              ret.out.fmt = (IF arg.parts.wd = 0 THEN 2 ELSE 1) /\ ~ret.out.warned
        /\ ~WellFormed(arg.parts) => ret.out.warned /\ ~ret.out.val

\* a text without weekday, dated on the last day of the interval, is accepted
\* through the second format
C6_Witness ==
    /\ fn = "is_date_in_range" /\ ret.done
    /\ arg.parts.wd = 0
    /\ WellFormed(arg.parts)
    /\ DayNumber(arg.parts) = DayNumber(arg.to)
    /\ DayNumber(arg.from) < DayNumber(arg.to)
    /\ ret.out.val /\ ret.out.fmt = 2

(***************************************************************************)
(* The claims about download_pdf and process_diarios_by_filter, under      *)
(* Spec.                                                                   *)
(***************************************************************************)
Visited == Flatten(pagesSeen)

\* what an entry of the API says, read off the entry itself
TrueEdition(e) ==
    CASE e = EntryTwelve -> 12
      [] e = EntrySeven -> 7
      [] OTHER -> 0
TrueDay(e) ==
    CASE e \in {EntryTwelve, EntrySlash, EntryNullMeta} -> 20230315
      [] e = EntrySeven -> 20240229
      [] OTHER -> 0

\* the entry satisfies the criteria passed
Wanted(e) ==
    /\ criteria.start_date # None =>
          /\ TrueDay(e) # 0
          /\ criteria.start_date.n \div 2 <= TrueDay(e)
          /\ TrueDay(e) <= criteria.end_date.n \div 2
    /\ criteria.start_edition # None =>
          /\ TrueEdition(e) # 0
          /\ criteria.start_edition.n <= TrueEdition(e)
          /\ TrueEdition(e) <= criteria.end_edition.n

HasFile(info) == DerivedPath(PDF_FOLDER, info) \in DOMAIN folder

\* the path of the file the download_pdf call just made was about
LastPath == lastDownload.path

\* C2: download_pdf never writes to a path that exists: a call that gets
\* status 200 while a file of its derived name is in the folder leaves the
\* folder as it is and returns the path; no file of the folder ever changes,
\* and no name is written twice.
C2_WriteOnce ==
    [][/\ (pc = "download" /\ lastDownload'.status = 200 /\ LastPath' \in DOMAIN folder) =>
             /\ folder' = folder
             /\ writes' = writes
             /\ lastDownload'.ret = JStr(LastPath')
       /\ \A f \in DOMAIN folder : f \in DOMAIN folder' /\ folder'[f] = folder[f]
       /\ \A i, j \in 1..Len(writes') : writes'[i].path = writes'[j].path => i = j
      ]_vars

\* a second record derives the name of a file that is there, with another body
\* on offer, and the call returns the path without writing
C2_Witness ==
    /\ lastDownload.kind = "call"
    /\ lastDownload.status = 200
    /\ ~lastDownload.wrote
    /\ lastDownload.ret = JStr(LastPath)
    /\ folder[LastPath] # BodyOf(diarios_data[lastDownload.pos].PDF_URL)
    /\ Len(writes) = 1
    /\ writes[1].path = LastPath

\* the page has no cursor to a next page: absent, null or empty
NoCursor(d) ==
    \/ d.links.k = "missing"
    \/ d.links.next.k \in {"missing", "null"}
    \/ d.links.next.k = "str" /\ d.links.next.s = <<>>

\* C3 (as stated): the walk ends, with the records collected so far returned
\* and nothing raised, as soon as a page response is empty, has no data array,
\* or carries no links.next cursor.
C3_WalkEndsWithoutRaising ==
    [][/\ (pc = "fetch" /\ (data'.k = "null" \/ data'.data.k # "list")) =>
             pc' = "returned" /\ diarios_data' = diarios_data
       /\ (pc = "loop" /\ idx > Len(data.data.items) /\ NoCursor(data)) =>
             pc' = "returned" /\ diarios_data' = diarios_data
      ]_vars

\* C4: what process_diarios_by_filter returns is the entries of the visited
\* pages that satisfy the criteria, each once, in page order and in-page
\* order; with no criteria, every entry.
C4_ReturnsTheWantedEntries ==
    pc = "returned" =>
        LET want == SelectSeq(Visited, Wanted)
        IN  /\ Len(diarios_data) = Len(want)
            /\ \A i \in 1..Len(want) : diarios_data[i] = DiarioInfo(want[i])
            /\ criteria = NoCriteria => Len(diarios_data) = Len(Visited)

\* a run with an edition interval returns one of two entries, the other
\* being outside the interval
C4_Witness ==
    /\ pc = "returned"
    /\ criteria.start_edition # None
    /\ Len(Visited) = 2
    /\ Len(diarios_data) = 1
    /\ \E i \in 1..2 : TrueEdition(Visited[i]) # 0 /\ ~Wanted(Visited[i])

\* the download that just ran failed: another status than 200, or an exception
DownloadFailed ==
    pc = "download" /\ (lastDownload'.status # 200 \/ lastDownload'.ret = None)

\* C7 (as stated): a failed download returns None, makes no second request,
\* creates or changes no file, and the run goes on with the next entry.
C7_FailureLeavesNoFile ==
    [][DownloadFailed =>
          /\ lastDownload'.ret = None
          /\ Len(fileRequests') = Len(fileRequests) + 1
          /\ folder' = folder
          /\ pc' = "loop" /\ idx' = idx + 1 /\ exc' = "none"
      ]_vars

\* C7 (amended): a failed download returns None, makes no second request and
\* changes no file that was there; it creates no file unless the failure is
\* an exception raised while the body is written, which leaves a part of the
\* body under the derived name; the run goes on with the next entry.
C7_FailureIsContained ==
    [][DownloadFailed =>
          /\ lastDownload'.ret = None
          /\ Len(fileRequests') = Len(fileRequests) + 1
          /\ \A f \in DOMAIN folder : f \in DOMAIN folder' /\ folder'[f] = folder[f]
          /\ folder' # folder =>
                /\ lastDownload'.status = 200
                /\ DOMAIN folder' = DOMAIN folder \cup {LastPath'}
                /\ folder'[LastPath'].upto # "end"
          /\ lastDownload'.status # 200 => folder' = folder
          /\ pc' = "loop" /\ idx' = idx + 1 /\ exc' = "none"
          /\ diarios_data' = diarios_data
      ]_vars

\* the download for the first entry of a page has just failed with status
\* 404, the folder is as it was, and the second entry of the page is next
C7_Witness ==
    /\ lastDownload.kind = "call"
    /\ lastDownload.status = 404
    /\ lastDownload.ret = None
    /\ Len(fileRequests) = 1
    /\ folder = <<>>
    /\ pc = "loop" /\ idx = 2
    /\ Len(data.data.items) = 2

\* C8 (as stated): an entry whose download failed is not in the sequence
\* returned, so every returned record with a file URL has its file in the
\* folder.
C8_FailedDownloadsAreDropped ==
    pc = "returned" =>
        /\ \A i \in 1..Len(diarios_data) :
              Truthy(diarios_data[i].PDF_URL) => HasFile(diarios_data[i])
        /\ \A i \in 1..Len(fileRequests) :
              ~HasFile(DiarioInfo(pagesSeen[fileRequests[i].page][fileRequests[i].idx]))
                  => fileRequests[i].pos > Len(diarios_data)

\* C8 (amended): a download error is caught and logged, and the entry stays
\* in the sequence: every entry a file was requested for, whether the
\* download failed or not, is in the sequence returned, where it was appended.
C8_FailedDownloadsStay ==
    /\ \A i \in 1..Len(fileRequests) :
          /\ fileRequests[i].pos <= Len(diarios_data)
          /\ diarios_data[fileRequests[i].pos] =
                DiarioInfo(pagesSeen[fileRequests[i].page][fileRequests[i].idx])
    /\ pc = "returned" =>
          Len(diarios_data) = Len(SelectSeq(Visited, Wanted))

\* a run returns a record whose download failed and whose file is not there
C8_Witness ==
    /\ pc = "returned"
    /\ \E i \in 1..Len(fileRequests) :
          /\ fileRequests[i].pos <= Len(diarios_data)
          /\ Truthy(diarios_data[fileRequests[i].pos].PDF_URL)
          /\ ~HasFile(diarios_data[fileRequests[i].pos])

\* C9: the pages are requested in the order 1, 2, 3, ..., none skipped and
\* none twice; page n+1 is requested only after every entry of page n was
\* processed, and only if the response of page n carried a next page.
C9_PagesInOrder ==
    [][pageRequests' # pageRequests =>
          /\ pageRequests' = Append(pageRequests, Len(pageRequests) + 1)
          /\ pageRequests # <<>> =>
                /\ Len(pagesSeen) = Len(pageRequests)
                /\ data.k = "dict" /\ data.data.k = "list"
                /\ data.data.items = pagesSeen[Len(pagesSeen)]
                /\ idx = Len(data.data.items) + 1
                /\ ~NoCursor(data)
      ]_vars

\* a second page is requested after a first page that held an entry
C9_Witness ==
    /\ pageRequests = <<1, 2>>
    /\ Len(pagesSeen) >= 1
    /\ Len(pagesSeen[1]) >= 1

\* C10: a file is requested only for an entry that was collected and has a
\* media URL, once for each such entry, after the entry was appended; an
\* entry that is dropped or has no URL causes no request, and the folder
\* changes only in a step that makes a request.
C10_DownloadOnlyWhatIsCollected ==
    [][/\ \A i \in 1..Len(fileRequests') :
             LET r == fileRequests'[i]
                 e == pagesSeen'[r.page][r.idx]
             IN  /\ Wanted(e)
                 /\ e.media.k = "dict" /\ Truthy(e.media.url)
                 /\ r.pos <= Len(diarios_data)
                 /\ diarios_data[r.pos] = DiarioInfo(e)
                 /\ \A j \in 1..Len(fileRequests') :
                       fileRequests'[j].pos = r.pos => j = i
       /\ \A k \in 1..Len(diarios_data') :
             (Truthy(diarios_data'[k].PDF_URL) /\ (k < Len(diarios_data') \/ pc' # "download"))
                 => \E i \in 1..Len(fileRequests') : fileRequests'[i].pos = k
       /\ folder' # folder => Len(fileRequests') = Len(fileRequests) + 1
       /\ fileRequests' # fileRequests => pc = "download"
      ]_vars

\* a run visits an entry the filter drops and an entry it collects, and makes
\* the one request
C10_Witness ==
    /\ pc = "returned"
    /\ Len(Visited) = 2
    /\ \E i \in 1..2 : ~Wanted(Visited[i])
    /\ Len(diarios_data) = 1
    /\ Len(fileRequests) = 1

====
